---- MODULE Spec2Model ----
(***************************************************************************)
(* Model of the TNM serviceability checker (src/app.py).                   *)
(*                                                                         *)
(* Python strings are modelled as sequences of one-character strings, so   *)
(* that strip / lower / replace / re.sub are computed character by         *)
(* character as the code computes them.  The element "BOM" stands for the  *)
(* single character U+FEFF.                                                *)
(***************************************************************************)
EXTENDS Naturals, Sequences, FiniteSets

VARIABLES
    SHEET_URL,      \* module global: the configured URL
    SHEET_URL_SRC,  \* module global: "env" | "secrets" | "default"
    pc,             \* position of the script run
    attempts,       \* load_data_with_fallbacks: the attempt log
    last_err,       \* load_data_with_fallbacks: last RequestException
    loaded,         \* the value returned by load_data_with_fallbacks
    query,          \* the widget values of the last button press
    ui,             \* what the check logic rendered for that press
    trail,          \* header strings produced by repeated normalisation
    cand,           \* load_data_with_fallbacks: index of the next candidate
    net,            \* environment: the responses the network can give
    sheet,          \* environment: the sheet that is published as CSV
    responses       \* environment: what the requests made so far returned

vars == <<SHEET_URL, SHEET_URL_SRC, pc, attempts, last_err, loaded, query, ui,
          trail, cand, net, sheet, responses>>

\* ------------------------------------------------------------------------
\* Python values
\* ------------------------------------------------------------------------

\* Python's None.
None == <<"<None>">>

\* pandas' missing value (float nan) in a dtype=str frame.
NaN == <<"<NaN>">>

\* bool(v) for the values the code tests with `if v:`.
Truthy(v) == v # None /\ v # <<>>

Lowers == <<"a","b","c","d","e","f","g","h","i","j","k","l","m",
            "n","o","p","q","r","s","t","u","v","w","x","y","z">>

Uppers == <<"A","B","C","D","E","F","G","H","I","J","K","L","M",
            "N","O","P","Q","R","S","T","U","V","W","X","Y","Z">>

Digits == {"0","1","2","3","4","5","6","7","8","9"}

LowerSet == {Lowers[k] : k \in DOMAIN Lowers}

\* Characters str.strip() removes and the regex class \s matches.
Whitespace == {" ", "\t"}

BOM == "BOM"

\* str.lower() on one character.
LowerChar(c) ==
    IF \E k \in DOMAIN Uppers : Uppers[k] = c
    THEN Lowers[CHOOSE k \in DOMAIN Uppers : Uppers[k] = c]
    ELSE c

\* str.lower()
StrLower(s) == [k \in DOMAIN s |-> LowerChar(s[k])]

RECURSIVE LStrip(_)
LStrip(s) ==
    IF s # <<>> /\ Head(s) \in Whitespace THEN LStrip(Tail(s)) ELSE s

RECURSIVE RStrip(_)
RStrip(s) ==
    IF s # <<>> /\ s[Len(s)] \in Whitespace
    THEN RStrip(SubSeq(s, 1, Len(s) - 1))
    ELSE s

\* str.strip()
StrStrip(s) == RStrip(LStrip(s))

\* str.replace(a, b) for a single character a and a string b.
RECURSIVE StrReplace(_, _, _)
StrReplace(s, a, b) ==
    IF s = <<>> THEN <<>>
    ELSE (IF Head(s) = a THEN b ELSE <<Head(s)>>) \o StrReplace(Tail(s), a, b)

\* re.sub(r"\s+", " ", s): every maximal run of whitespace becomes one space.
RECURSIVE CollapseWhitespace(_)
CollapseWhitespace(s) ==
    IF s = <<>> THEN <<>>
    ELSE IF Head(s) \in Whitespace
         THEN <<" ">> \o CollapseWhitespace(LStrip(s))
         ELSE <<Head(s)>> \o CollapseWhitespace(Tail(s))

\* re.sub(r"[^a-z0-9 ]+", "", s)
StripNonAlnum(s) == SelectSeq(s, LAMBDA c : c \in LowerSet \cup Digits \cup {" "})

\* str(v) for a cell value of the frame.
Str(v) == IF v = NaN THEN <<"n","a","n">> ELSE v

\* `tok in c` for two strings.
Contains(c, tok) ==
    \E k \in 0..Len(c) :
        k + Len(tok) <= Len(c) /\ SubSeq(c, k + 1, k + Len(tok)) = tok

\* str.split() on whitespace.
RECURSIVE StrSplit(_)
StrSplit(s) ==
    LET t == LStrip(s) IN
    IF t = <<>> THEN <<>>
    ELSE LET n == CHOOSE k \in 1..Len(t) :
                    /\ \A j \in 1..k : t[j] \notin Whitespace
                    /\ (k = Len(t) \/ t[k + 1] \in Whitespace)
         IN <<SubSeq(t, 1, n)>> \o StrSplit(SubSeq(t, n + 1, Len(t)))

\* `x in xs` for a list xs.
InList(x, xs) == \E k \in DOMAIN xs : xs[k] = x

\* ------------------------------------------------------------------------
\* Helpers of app.py
\* ------------------------------------------------------------------------

_normalize_header(col) ==
    StripNonAlnum(CollapseWhitespace(
        StrReplace(StrReplace(StrLower(StrStrip(col)), BOM, <<>>), "_", <<" ">>)))

\* re.sub(r"\D", "", s or "")
_digits_only(s) ==
    IF s = None THEN <<>> ELSE SelectSeq(s, LAMBDA c : c \in Digits)

\* ------------------------------------------------------------------------
\* Program constants
\* ------------------------------------------------------------------------

SYN_pincode == <<"p","i","n","c","o","d","e">>

SYN_pin_code == <<"p","i","n"," ","c","o","d","e">>

SYN_pin == <<"p","i","n">>

SYN_postal_code == <<"p","o","s","t","a","l"," ","c","o","d","e">>

SYN_postcode == <<"p","o","s","t","c","o","d","e">>

SYN_zip == <<"z","i","p">>

SYN_zip_code == <<"z","i","p"," ","c","o","d","e">>

PINCODE_SYNONYMS ==
    <<SYN_pincode, SYN_pin_code, SYN_pin, SYN_postal_code, SYN_postcode,
      SYN_zip, SYN_zip_code>>

\* The keys of SERVICE_CANONICAL, in dict order.
ServiceKeys == <<"4W_Tyre", "4W_Battery", "2W_Tyre", "2W_Battery">>

Keys == {ServiceKeys[n] : n \in DOMAIN ServiceKeys}

CANON_4W_Tyre == <<"4","w"," ","t","y","r","e"," ","o","r","d","e","r">>

CANON_4W_Battery == <<"4","w"," ","b","a","t","t","e","r","y"," ","o","r","d","e","r">>

CANON_2W_Tyre == <<"2","w"," ","t","y","r","e"," ","o","r","d","e","r">>

CANON_2W_Battery == <<"2","w"," ","b","a","t","t","e","r","y"," ","o","r","d","e","r">>

SERVICE_CANONICAL ==
    [key \in Keys |->
        CASE key = "4W_Tyre" -> CANON_4W_Tyre
          [] key = "4W_Battery" -> CANON_4W_Battery
          [] key = "2W_Tyre" -> CANON_2W_Tyre
          [] key = "2W_Battery" -> CANON_2W_Battery]

TOK_pin == <<"p","i","n">>

TOK_code == <<"c","o","d","e">>

TOK_remark == <<"r","e","m","a","r","k">>

TOK_note == <<"n","o","t","e">>

TXT_pincode == <<"p","i","n","c","o","d","e">>

TXT_no == <<"n","o">>

TXT_yes == <<"y","e","s">>

TXT_dash == <<"-">>

\* The length the check logic requires of a pincode.
PINCODE_LEN == 6

\* max_chars of the pincode text input.
PINCODE_MAX_CHARS == 6

\* ------------------------------------------------------------------------
\* Column resolution
\* ------------------------------------------------------------------------

\* fuzzy_tokens: the default None and the empty list are both <<>> here, the
\* code tests it only with `if fuzzy_tokens:`.
_guess_col(cols, targets, fuzzy_tokens) ==
    IF \E n \in DOMAIN targets : InList(targets[n], cols)
    THEN targets[CHOOSE n \in DOMAIN targets :
                    /\ InList(targets[n], cols)
                    /\ \A m \in 1..(n - 1) : ~InList(targets[m], cols)]
    ELSE IF fuzzy_tokens # <<>> /\ \E j \in DOMAIN cols :
           \A t \in DOMAIN fuzzy_tokens : Contains(cols[j], fuzzy_tokens[t])
    THEN cols[CHOOSE j \in DOMAIN cols :
                /\ \A t \in DOMAIN fuzzy_tokens : Contains(cols[j], fuzzy_tokens[t])
                /\ \A i \in 1..(j - 1) :
                     \E t \in DOMAIN fuzzy_tokens : ~Contains(cols[i], fuzzy_tokens[t])]
    ELSE None

\* Mutant of _resolve_pincode_col: the fuzzy fallback accepts any header
\* containing "code".
ResolvePincodeLoose(cols) ==
    LET col == _guess_col(cols, PINCODE_SYNONYMS, <<>>) IN
    IF Truthy(col) THEN col ELSE _guess_col(cols, <<>>, <<TOK_code>>)

_resolve_pincode_col(cols) ==
    LET col == _guess_col(cols, PINCODE_SYNONYMS, <<>>) IN
    IF Truthy(col) THEN col ELSE _guess_col(cols, <<>>, <<TOK_pin, TOK_code>>)

_resolve_service_col(cols, canonical_text) ==
    LET exact == _guess_col(cols, <<canonical_text>>, <<>>) IN
    IF Truthy(exact) THEN exact
    ELSE _guess_col(cols, <<>>, StrSplit(canonical_text))

\* ------------------------------------------------------------------------
\* Configuration and candidate URLs
\*
\* A URL is [kind, query]: kind "url" parses, kind "unparseable" makes
\* urlparse raise, kind "empty" is "" and kind "none" is None.  All URLs
\* share scheme, host and path; query is the list of (key, value) pairs in
\* the order they are written, so two URLs are the same text exactly when
\* the records are equal.
\* ------------------------------------------------------------------------

Url(q) == [kind |-> "url", query |-> q]

DEFAULT_SHEET_URL ==
    Url(<< <<"gid", "0">>, <<"single", "true">>, <<"output", "csv">> >>)

NoValue == [kind |-> "none", query |-> <<>>]

EmptyValue == [kind |-> "empty", query |-> <<>>]

get_config_value(env, secrets, default) ==
    IF env.kind \notin {"none", "empty"} THEN <<env, "env">>
    ELSE IF secrets.kind \notin {"raises", "none", "empty"} THEN <<secrets, "secrets">>
    ELSE <<default, "default">>

\* dict key assignment: an existing key keeps its place.
DictSet(d, key, val) ==
    IF \E n \in DOMAIN d : d[n][1] = key
    THEN [n \in DOMAIN d |-> IF d[n][1] = key THEN <<key, val>> ELSE d[n]]
    ELSE Append(d, <<key, val>>)

\* dict.pop(key, None)
DictPop(d, key) == SelectSeq(d, LAMBDA kv : kv[1] # key)

\* dict(parse_qsl(query, keep_blank_values=True))
RECURSIVE DictOfPairs(_, _)
DictOfPairs(d, pairs) ==
    IF pairs = <<>> THEN d
    ELSE DictOfPairs(DictSet(d, Head(pairs)[1], Head(pairs)[2]), Tail(pairs))

\* The de-duplication loop, preserving order.
RECURSIVE Dedup(_, _)
Dedup(out, rest) ==
    IF rest = <<>> THEN out
    ELSE Dedup(IF InList(Head(rest), out) THEN out ELSE Append(out, Head(rest)),
               Tail(rest))

_variants_of_sheet_url(u) ==
    IF u.kind \in {"none", "empty"} THEN <<>>
    ELSE IF u.kind # "url" THEN <<u>>
    ELSE LET q  == DictOfPairs(<<>>, u.query)
             q2 == DictSet(q, "output", "csv")
             q3 == DictPop(q2, "single")
             v2 == Url(q2)
             v3 == Url(q3)
             v4 == Url(Append(q2, <<"cachebust", "1">>))
         IN Dedup(<<>>, <<u, v2, v3, v4>>)

\* ------------------------------------------------------------------------
\* Responses
\*
\* A response is [exc, status, body]: exc names the RequestException raised
\* ("" when the request returns), body is the kind of text returned: "empty",
\* "html" (an HTML page, with commas and line breaks in its markup), "text"
\* (one line without delimiter) or "csv" (the published sheet as CSV).
\* ------------------------------------------------------------------------

Response(e, s, b) == [exc |-> e, status |-> s, body |-> b]

\* f"EXC:{type(e).__name__}"
ExcLabel(name) ==
    CASE name = "Timeout" -> "EXC:Timeout"
      [] name = "ConnectionError" -> "EXC:ConnectionError"

\* `not text`
BodyIsEmpty(r, sh) == r.body = "empty"

\* "<html" in lower or "<!doctype html" in lower
BodyHasHtmlMarker(r, sh) == r.body = "html"

\* "," in text or "\t" in text: a CSV of at least two columns has a comma.
BodyHasDelimiter(r, sh) ==
    r.body = "html" \/ (r.body = "csv" /\ Len(sh.headers) > 1)

\* "\n" in text
BodyHasNewline(r, sh) == r.body \in {"html", "csv"}

\* Mutant of _looks_like_csv: the HTML test is left out.
LooksLikeCsvNoHtmlTest(r, sh) ==
    IF BodyIsEmpty(r, sh) THEN FALSE
    ELSE BodyHasDelimiter(r, sh) /\ BodyHasNewline(r, sh)

_looks_like_csv(r, sh) ==
    IF BodyIsEmpty(r, sh) THEN FALSE
    ELSE IF BodyHasHtmlMarker(r, sh) THEN FALSE
    ELSE BodyHasDelimiter(r, sh) /\ BodyHasNewline(r, sh)

\* ------------------------------------------------------------------------
\* The data frame: [columns, rows], rows[r][j] the cell of row r under
\* columns[j].
\* ------------------------------------------------------------------------

\* Texts pandas reads as a missing value (two of its default NA strings).
PandasNaTexts == {<<>>, <<"N","A">>}

\* pd.read_csv(StringIO(text), dtype=str): cells stay text, NA texts become NaN.
read_csv(sh) ==
    [columns |-> sh.headers,
     rows    |-> [r \in DOMAIN sh.rows |->
                    [j \in DOMAIN sh.rows[r] |->
                        IF sh.rows[r][j] \in PandasNaTexts THEN NaN
                        ELSE sh.rows[r][j]]]]

\* df.rename(columns={old: new})
DfRename(df, old, new) ==
    [df EXCEPT !.columns = [j \in DOMAIN @ |-> IF @[j] = old THEN new ELSE @[j]]]

\* df[name] = value, for a name that is not yet a column.
DfAddColumn(df, name, value) ==
    [columns |-> Append(df.columns, name),
     rows    |-> [r \in DOMAIN df.rows |-> Append(df.rows[r], value)]]

\* df[name] = df[name].astype(str).map(_digits_only)
DfDigitsOnly(df, name) ==
    [df EXCEPT !.rows = [r \in DOMAIN @ |->
        [j \in DOMAIN @[r] |->
            IF df.columns[j] = name THEN _digits_only(Str(@[r][j])) ELSE @[r][j]]]]

\* Index of the first column labelled col, 0 when there is none.
ColumnIndex(df, col) ==
    IF \E j \in DOMAIN df.columns : df.columns[j] = col
    THEN CHOOSE j \in DOMAIN df.columns :
            /\ df.columns[j] = col
            /\ \A i \in 1..(j - 1) : df.columns[i] # col
    ELSE 0

\* row.get(col, default)
RowGet(df, row, col, default) ==
    IF ColumnIndex(df, col) = 0 THEN default ELSE row[ColumnIndex(df, col)]

EmptyDf == [columns |-> <<>>, rows |-> <<>>]

NoResolved == [key \in Keys |-> None]

NoMsg == [kind |-> "none", columns |-> <<>>, last_err |-> ""]

\* The 3-tuple returned on success.
LoadSuccess(df, resolved) ==
    [has_df |-> TRUE, df |-> df, resolved |-> resolved, msg |-> NoMsg]

\* The 4-tuple returned on failure: (None, None, attempts, message).
LoadFailure(kind, columns, err) ==
    [has_df |-> FALSE, df |-> EmptyDf, resolved |-> NoResolved,
     msg |-> [kind |-> kind, columns |-> columns, last_err |-> err]]

\* The loop over SERVICE_CANONICAL.items(); st is [df, resolved].
RECURSIVE ResolveServices(_, _)
ResolveServices(st, keys) ==
    IF keys = <<>> THEN st
    ELSE LET key       == Head(keys)
             canonical == SERVICE_CANONICAL[key]
             col       == _resolve_service_col(st.df.columns, canonical)
         IN IF Truthy(col)
            THEN ResolveServices(
                   [st EXCEPT !.resolved[key] = col], Tail(keys))
            ELSE ResolveServices(
                   [df       |-> DfAddColumn(st.df, canonical, TXT_no),
                    resolved |-> [st.resolved EXCEPT ![key] = canonical]],
                   Tail(keys))

\* next((c for c in df.columns if "remark" in c or "note" in c), None)
FindRemarkCol(columns) ==
    IF \E j \in DOMAIN columns :
          Contains(columns[j], TOK_remark) \/ Contains(columns[j], TOK_note)
    THEN columns[CHOOSE j \in DOMAIN columns :
            /\ Contains(columns[j], TOK_remark) \/ Contains(columns[j], TOK_note)
            /\ \A i \in 1..(j - 1) :
                 ~(Contains(columns[i], TOK_remark) \/ Contains(columns[i], TOK_note))]
    ELSE None

\* Mutant of ParseAndResolve: the load fails when a service column cannot be
\* resolved.
ParseAndResolveStrict(sh) ==
    LET df0 == read_csv(sh)
        df1 == [df0 EXCEPT !.columns = [j \in DOMAIN @ |-> _normalize_header(@[j])]]
        pincode_col == _resolve_pincode_col(df1.columns)
    IN IF ~Truthy(pincode_col)
          \/ \E key \in Keys :
                ~Truthy(_resolve_service_col(df1.columns, SERVICE_CANONICAL[key]))
       THEN LoadFailure("no_pincode_column", df1.columns, "")
       ELSE LET df2 == IF pincode_col # TXT_pincode
                       THEN DfRename(df1, pincode_col, TXT_pincode) ELSE df1
                df3 == DfDigitsOnly(df2, TXT_pincode)
                sv  == ResolveServices([df |-> df3, resolved |-> NoResolved],
                                       ServiceKeys)
            IN LoadSuccess(sv.df, sv.resolved)

\* Lines 144-172: what load_data_with_fallbacks does with a tabular body.
ParseAndResolve(sh) ==
    LET df0 == read_csv(sh)
        df1 == [df0 EXCEPT !.columns = [j \in DOMAIN @ |-> _normalize_header(@[j])]]
        pincode_col == _resolve_pincode_col(df1.columns)
    IN IF ~Truthy(pincode_col)
       THEN LoadFailure("no_pincode_column", df1.columns, "")
       ELSE LET df2 == IF pincode_col # TXT_pincode
                       THEN DfRename(df1, pincode_col, TXT_pincode) ELSE df1
                df3 == DfDigitsOnly(df2, TXT_pincode)
                sv  == ResolveServices([df |-> df3, resolved |-> NoResolved],
                                       ServiceKeys)
                remark_col == FindRemarkCol(sv.df.columns)
                df4 == IF Truthy(remark_col) /\ remark_col # TOK_remark
                       THEN DfRename(sv.df, remark_col, TOK_remark) ELSE sv.df
            IN LoadSuccess(df4, sv.resolved)

\* ------------------------------------------------------------------------
\* The check logic (lines 240-281)
\* ------------------------------------------------------------------------

\* str(v).strip().lower() == "yes"
IsYes(v) == StrLower(StrStrip(Str(v))) = TXT_yes

\* Mutant of safe_yes: the column is looked up under the canonical name
\* instead of the resolved one.
SafeYesByCanonicalName(ld, row, canonical_text) ==
    IsYes(RowGet(ld.df, row, canonical_text, <<>>))

\* safe_yes: mapping.get(canonical_text, canonical_text), then row.get.
safe_yes(ld, row, canonical_text) ==
    LET col == IF \E key \in Keys : SERVICE_CANONICAL[key] = canonical_text
               THEN ld.resolved[CHOOSE key \in Keys :
                                   SERVICE_CANONICAL[key] = canonical_text]
               ELSE canonical_text
    IN IsYes(RowGet(ld.df, row, col, <<>>))

\* Mutant of the serviceable test: the cell is not lowercased.
ServiceableCaseSensitive(ld, row, service_type) ==
    StrStrip(Str(RowGet(ld.df, row, ld.resolved[service_type], <<>>))) = TXT_yes

\* Lines 252-254: service_col, val, is_serviceable.
is_serviceable(ld, row, service_type) ==
    IsYes(RowGet(ld.df, row, ld.resolved[service_type], <<>>))

\* Lines 266-271.
is_4w_only(ld, row) ==
    /\ safe_yes(ld, row, CANON_4W_Tyre)
    /\ ~safe_yes(ld, row, CANON_4W_Battery)
    /\ ~safe_yes(ld, row, CANON_2W_Tyre)
    /\ ~safe_yes(ld, row, CANON_2W_Battery)

\* Line 277: str(row.get("remark", "") or "").strip()
RemarkText(ld, row) ==
    LET v == RowGet(ld.df, row, TOK_remark, <<>>) IN
    StrStrip(Str(IF v = <<>> THEN <<>> ELSE v))

\* Rows of df[df["pincode"] == pin], as indices in table order.
MatchingRows(ld, pin) ==
    {r \in DOMAIN ld.df.rows : RowGet(ld.df, ld.df.rows[r], TXT_pincode, <<>>) = pin}

Rendered(kind, looked, row, svc, only, warn, remark) ==
    [kind |-> kind, looked_up |-> looked, row |-> row, is_serviceable |-> svc,
     is_4w_only |-> only, warning |-> warn, remark |-> remark]

NoUi == Rendered("none", FALSE, 0, FALSE, FALSE, FALSE, None)

\* Mutant of the length test: any non-empty digit string is accepted.
PinIsValidNonEmpty(pin) == Len(pin) > 0

\* Line 243, negated: len(pin) == 6
PinIsValid(pin) == Len(pin) = PINCODE_LEN

\* What one press of the button renders.
CheckLogic(ld, service_type, pincode_input) ==
    LET pin == _digits_only(pincode_input) IN
    IF ~PinIsValid(pin)
    THEN Rendered("invalid", FALSE, 0, FALSE, FALSE, FALSE, None)
    ELSE IF MatchingRows(ld, pin) = {}
    THEN Rendered("not_found", TRUE, 0, FALSE, FALSE, FALSE, None)
    ELSE LET r      == CHOOSE x \in MatchingRows(ld, pin) :
                          \A y \in MatchingRows(ld, pin) : x <= y
             row    == ld.df.rows[r]
             svc    == is_serviceable(ld, row, service_type)
             only   == is_4w_only(ld, row)
             remark == RemarkText(ld, row)
         IN IF svc
            THEN Rendered("serviceable", TRUE, r, TRUE, only,
                          service_type = "4W_Tyre" /\ only,
                          IF remark # <<>> /\ remark # TXT_dash THEN remark ELSE None)
            ELSE Rendered("not_serviceable", TRUE, r, FALSE, only, FALSE, None)

\* ------------------------------------------------------------------------
\* Inputs: configured URLs, responses, published sheets, typed pincodes
\* ------------------------------------------------------------------------

\* Number of data rows a published sheet has after its first.
MaxExtraRows == 1

\* Longest header string normalised under SpecNorm.
MaxHeaderLen == 3

URL_CSV == Url(<< <<"gid", "0">>, <<"output", "csv">> >>)

URL_HTML == Url(<< <<"gid", "0">>, <<"single", "true">>, <<"output", "html">> >>)

URL_BAD == [kind |-> "unparseable", query |-> <<>>]

SecretsRaise == [kind |-> "raises", query |-> <<>>]

EnvValues == {NoValue, EmptyValue, URL_CSV, URL_BAD}

SecretValues == {SecretsRaise, NoValue, URL_HTML}

R_Timeout == Response("Timeout", "", "empty")

R_ConnectionError == Response("ConnectionError", "", "empty")

R_404 == Response("", "404", "html")

R_404_Csv == Response("", "404", "csv")

R_Html == Response("", "200", "html")

R_Empty == Response("", "200", "empty")

R_Text == Response("", "200", "text")

R_Csv == Response("", "200", "csv")

AllResponses ==
    {R_Timeout, R_ConnectionError, R_404, R_404_Csv, R_Html, R_Empty, R_Text, R_Csv}

H_PinCode == <<"P","i","n"," ","C","o","d","e">>

H_Pin_Code == <<"P","i","n","_","C","o","d","e">>

H_pin_code_ == <<"p","i","n","-","c","o","d","e"," ">>

H_ZIP == <<"Z","I","P">>

H_ZipCode == <<"Z","i","p","-","C","o","d","e">>

H_DeliveryPincode == <<"D","e","l","i","v","e","r","y"," ","P","i","n","c","o","d","e">>

H_City == <<"C","i","t","y">>

H_4WT == <<"4","W"," ","T","y","r","e"," ","O","r","d","e","r">>

H_4WB == <<"4","W"," ","B","a","t","t","e","r","y"," ","O","r","d","e","r">>

H_2WT == <<"2","W"," ","T","y","r","e"," ","O","r","d","e","r">>

H_2WB == <<"2","W"," ","B","a","t","t","e","r","y"," ","O","r","d","e","r">>

H_4WT_fuzzy == <<"O","r","d","e","r"," ","4","W"," ","T","y","r","e","?">>

H_2WB_note == <<"2","W"," ","B","a","t","t","e","r","y"," ","O","r","d","e","r"," ","N","o","t","e">>

H_4W2W_Tyre == <<"4","W","/","2","W"," ","T","y","r","e"," ","O","r","d","e","r">>

H_Remark == <<"R","e","m","a","r","k">>

H_Notes == <<"N","o","t","e","s">>

\* Header rows of the published sheets.
Layouts ==
    { <<H_PinCode, H_4WT, H_4WB, H_2WT, H_2WB, H_Remark>>,
      <<H_Pin_Code, H_4WT_fuzzy, H_4WB, H_2WT, H_2WB, H_Notes>>,
      <<H_pin_code_, H_4WT, H_2WT>>,
      <<H_ZIP, H_4WT, H_4WB, H_2WT, H_2WB_note>>,
      <<H_City, H_ZIP, H_PinCode, H_4WT, H_4WB, H_2WT, H_2WB>>,
      <<H_DeliveryPincode, H_4W2W_Tyre, H_4WB, H_2WB, H_Remark>>,
      <<H_City, H_4WT, H_4WB, H_2WT, H_2WB, H_Remark>>,
      <<H_ZipCode, H_4WT, H_4WB, H_2WT, H_2WB, H_Remark>> }

\* What the sheet's author keeps under a header.
RoleOf(h) ==
    CASE h \in {H_PinCode, H_Pin_Code, H_pin_code_, H_ZIP, H_ZipCode,
                H_DeliveryPincode} -> "pincode"
      [] h \in {H_4WT, H_4WT_fuzzy, H_4W2W_Tyre} -> "4W_Tyre"
      [] h = H_4WB -> "4W_Battery"
      [] h = H_2WT -> "2W_Tyre"
      [] h \in {H_2WB, H_2WB_note} -> "2W_Battery"
      [] h \in {H_Remark, H_Notes} -> "remark"
      [] OTHER -> "city"

V_Yes_ == <<"Y","e","s"," ">>

V_YES == <<"Y","E","S">>

V_maybe == <<"m","a","y","b","e">>

R_callCM == <<" ","c","a","l","l"," ","C","M"," ">>

R_blank == <<" "," ">>

P_400001 == <<"4","0","0","0","0","1">>

P_400_001 == <<"4","0","0"," ","0","0","1">>

P_INV400001 == <<"I","N","V","4","0","0","0","0","1">>

P_110001 == <<"1","1","0","0","0","1">>

P_999999 == <<"9","9","9","9","9","9">>

P_40000 == <<"4","0","0","0","0">>

P_4000a1 == <<"4","0","0","0","a","1">>

PlainStyle == [yes |-> V_Yes_, no |-> TXT_no, pin |-> P_400001]

\* How one author writes yes, no and a pincode.
Styles ==
    { PlainStyle,
      [yes |-> V_YES,  no |-> <<>>,     pin |-> P_400_001],
      [yes |-> V_Yes_, no |-> TXT_dash, pin |-> P_INV400001],
      [yes |-> V_YES,  no |-> V_maybe,  pin |-> P_400001] }

RemarkTexts == {TXT_dash, <<>>, R_blank, R_callCM}

\* One data row: the services in `yes` are available.
RowOf(headers, pin, yes, style, remark) ==
    [j \in DOMAIN headers |->
        CASE RoleOf(headers[j]) = "pincode" -> pin
          [] RoleOf(headers[j]) = "remark"  -> remark
          [] RoleOf(headers[j]) = "city"    -> <<"M","u","m">>
          [] OTHER -> IF RoleOf(headers[j]) \in yes THEN style.yes ELSE style.no]

\* The n-th row after the first: another pincode with nothing available, or
\* the first row's pincode again with everything available.
ExtraRow(headers, n) ==
    IF n % 2 = 1
    THEN RowOf(headers, P_110001, {}, PlainStyle, TXT_dash)
    ELSE RowOf(headers, P_400001, Keys, PlainStyle, TXT_dash)

SheetsOver(layouts, yesSets, styles, remarks) ==
    { [headers |-> h,
       rows    |-> [r \in 1..(1 + MaxExtraRows) |->
                      IF r = 1 THEN RowOf(h, st.pin, yes, st, rm)
                      ELSE ExtraRow(h, r - 1)]] :
        h \in layouts, yes \in yesSets, st \in styles, rm \in remarks }

\* Texts typed into the pincode input (at most PINCODE_MAX_CHARS characters).
PinInputs ==
    {p \in {P_400001, P_110001, P_999999, P_40000, P_4000a1} :
        Len(p) <= PINCODE_MAX_CHARS}

NormAlphabet == {"a", "B", "1", "_", "-", " ", "\t", BOM}

RECURSIVE StringsUpTo(_)
StringsUpTo(n) ==
    IF n = 0 THEN {<<>>}
    ELSE StringsUpTo(n - 1) \cup
         {Append(x, c) : x \in StringsUpTo(n - 1), c \in NormAlphabet}

\* ------------------------------------------------------------------------
\* The state machine
\* ------------------------------------------------------------------------

NoQuery == [service_type |-> "", pincode_input |-> <<>>]

Candidates == _variants_of_sheet_url(SHEET_URL)

InitWith(envs, secrets, answers, sheets) ==
    /\ \E env \in envs, sec \in secrets :
          LET cfg == get_config_value(env, sec, DEFAULT_SHEET_URL) IN
          /\ SHEET_URL = cfg[1]
          /\ SHEET_URL_SRC = cfg[2]
    /\ net = answers
    /\ sheet \in sheets
    /\ pc = "load"
    /\ cand = 1
    /\ attempts = <<>>
    /\ last_err = ""
    /\ loaded = LoadFailure("none", <<>>, "")
    /\ query = NoQuery
    /\ ui = NoUi
    /\ trail = <<>>
    /\ responses = <<>>

\* One pass of the loop in which requests.get raises a RequestException.
FetchRaises ==
    /\ pc = "load"
    /\ cand <= Len(Candidates)
    /\ \E r \in net :
          /\ r.exc # ""
          /\ last_err' = r.exc
          /\ responses' = Append(responses, r)
          /\ attempts' = Append(attempts, <<Candidates[cand], ExcLabel(r.exc)>>)
    /\ cand' = cand + 1
    /\ UNCHANGED <<SHEET_URL, SHEET_URL_SRC, pc, loaded, query, ui, trail, net, sheet>>

\* One pass in which the response is not a 200 with a CSV-looking body.
FetchRejected ==
    /\ pc = "load"
    /\ cand <= Len(Candidates)
    /\ \E r \in net :
          /\ r.exc = ""
          /\ ~(r.status = "200" /\ _looks_like_csv(r, sheet))
          /\ responses' = Append(responses, r)
          /\ attempts' = Append(attempts, <<Candidates[cand], r.status>>)
    /\ cand' = cand + 1
    /\ UNCHANGED <<SHEET_URL, SHEET_URL_SRC, pc, last_err, loaded, query, ui, trail,
                   net, sheet>>

\* The pass that gets a tabular body: parse, resolve and return.
FetchTabular ==
    /\ pc = "load"
    /\ cand <= Len(Candidates)
    /\ \E r \in net :
          /\ r.exc = ""
          /\ r.status = "200" /\ _looks_like_csv(r, sheet)
          /\ responses' = Append(responses, r)
          /\ attempts' = Append(attempts, <<Candidates[cand], r.status>>)
    /\ loaded' = ParseAndResolve(sheet)
    /\ pc' = "returned"
    /\ UNCHANGED <<SHEET_URL, SHEET_URL_SRC, cand, last_err, query, ui, trail, net,
                   sheet>>

\* The loop ran out of candidates: lines 178-181.
Exhausted ==
    /\ pc = "load"
    /\ cand > Len(Candidates)
    /\ loaded' = LoadFailure("could_not_fetch", <<>>, last_err)
    /\ pc' = "returned"
    /\ UNCHANGED <<SHEET_URL, SHEET_URL_SRC, cand, attempts, last_err, query, ui,
                   trail, net, sheet, responses>>

\* Lines 210-223: df is None, the error is shown and the script stops.
StopOnFailure ==
    /\ pc = "returned"
    /\ ~loaded.has_df
    /\ pc' = "stopped"
    /\ UNCHANGED <<SHEET_URL, SHEET_URL_SRC, cand, attempts, last_err, loaded, query,
                   ui, trail, net, sheet, responses>>

\* Lines 233-235: the form is rendered.
RenderForm ==
    /\ pc = "returned"
    /\ loaded.has_df
    /\ pc' = "form"
    /\ UNCHANGED <<SHEET_URL, SHEET_URL_SRC, cand, attempts, last_err, loaded, query,
                   ui, trail, net, sheet, responses>>

\* The button is pressed: the check logic runs on the cached load.
Check ==
    /\ pc = "form"
    /\ \E service_type \in Keys, pincode_input \in PinInputs :
          /\ query' = [service_type |-> service_type, pincode_input |-> pincode_input]
          /\ ui' = CheckLogic(loaded, service_type, pincode_input)
    /\ UNCHANGED <<SHEET_URL, SHEET_URL_SRC, pc, cand, attempts, last_err, loaded,
                   trail, net, sheet, responses>>

\* _normalize_header applied to the last string of the trail.
NormalizeHeader ==
    /\ pc = "normalize"
    /\ Len(trail) <= 2
    /\ trail' = Append(trail, _normalize_header(trail[Len(trail)]))
    /\ UNCHANGED <<SHEET_URL, SHEET_URL_SRC, pc, cand, attempts, last_err, loaded,
                   query, ui, net, sheet, responses>>

Init ==
    InitWith({URL_CSV}, {SecretsRaise}, {R_Timeout, R_Html, R_Csv},
             SheetsOver(Layouts, SUBSET Keys, {PlainStyle}, {TXT_dash})
             \cup SheetsOver(Layouts, {{"4W_Tyre"}, {"4W_Tyre", "2W_Battery"}},
                             Styles, RemarkTexts))

Next ==
    \/ FetchRaises
    \/ FetchRejected
    \/ FetchTabular
    \/ Exhausted
    \/ StopOnFailure
    \/ RenderForm
    \/ Check

\* One script run and the presses that follow it.
Spec == Init /\ [][Next]_vars

InitLoad ==
    InitWith(EnvValues, SecretValues, AllResponses,
             SheetsOver(Layouts, {{"4W_Tyre"}}, {PlainStyle}, {TXT_dash}))

NextLoad ==
    \/ FetchRaises
    \/ FetchRejected
    \/ FetchTabular
    \/ Exhausted
    \/ StopOnFailure
    \/ RenderForm

\* load_data_with_fallbacks over every configuration and every response.
SpecLoad == InitLoad /\ [][NextLoad]_vars

InitNorm ==
    /\ trail \in {<<x>> : x \in StringsUpTo(MaxHeaderLen)}
    /\ pc = "normalize"
    /\ SHEET_URL = DEFAULT_SHEET_URL
    /\ SHEET_URL_SRC = "default"
    /\ net = {}
    /\ sheet = [headers |-> <<>>, rows |-> <<>>]
    /\ cand = 1
    /\ attempts = <<>>
    /\ last_err = ""
    /\ loaded = LoadFailure("none", <<>>, "")
    /\ query = NoQuery
    /\ ui = NoUi
    /\ responses = <<>>

NextNorm == NormalizeHeader

\* _normalize_header applied repeatedly to every short header string.
SpecNorm == InitNorm /\ [][NextNorm]_vars

\* ------------------------------------------------------------------------
\* Properties
\* ------------------------------------------------------------------------

\* C1: header normalisation is idempotent: normalising an already
\* normalised header gives the same string again.
NormalizeIdempotent ==
    Len(trail) >= 3 => trail[3] = trail[2]

\* A response whose body is the published sheet, returned with status 200.
IsTabular(r) == r.exc = "" /\ r.status = "200" /\ r.body = "csv"

\* What the attempt log records for a response.
OutcomeOf(r) ==
    IF r.exc = "Timeout" THEN "EXC:Timeout"
    ELSE IF r.exc # "" THEN "EXC:ConnectionError"
    ELSE r.status

\* The load has returned.
LoadReturned == pc \in {"returned", "stopped", "form"}

\* C2: candidates are attempted strictly in candidate order; a candidate
\* that raises, returns a non-success status or a non-tabular body is
\* recorded and the next one attempted; fetch failure is reported only after
\* every candidate was attempted without a tabular body, and the log then
\* holds one (url, outcome) entry per candidate, in order.
FallbackInOrder ==
    /\ Len(attempts) = Len(responses)
    /\ Len(attempts) <= Len(Candidates)
    /\ \A n \in DOMAIN attempts :
          attempts[n] = <<Candidates[n], OutcomeOf(responses[n])>>
    /\ \A n \in DOMAIN responses :
          IsTabular(responses[n]) => n = Len(responses) /\ LoadReturned
    /\ pc = "load" => cand = Len(attempts) + 1
    /\ LoadReturned =>
          \/ /\ loaded.msg.kind = "could_not_fetch"
             /\ Len(attempts) = Len(Candidates)
             /\ \A n \in DOMAIN responses : ~IsTabular(responses[n])
          \/ /\ loaded.msg.kind # "could_not_fetch"
             /\ responses # <<>>
             /\ IsTabular(responses[Len(responses)])

\* C2 witness: two candidates, the first answers with an HTML page and the
\* second with the CSV; the load succeeded and the log has two entries.
FallbackInOrderWitness ==
    /\ Len(Candidates) = 2
    /\ responses = <<R_Html, R_Csv>>
    /\ loaded.has_df
    /\ Len(attempts) = 2

\* The headers of the published sheet, normalised.
NormalizedHeaders ==
    [j \in DOMAIN sheet.headers |-> _normalize_header(sheet.headers[j])]

\* A tabular body was fetched, so lines 144-172 ran.
SheetParsed == LoadReturned /\ loaded.msg.kind # "could_not_fetch"

\* No header is a pincode synonym and none contains both "pin" and "code".
NoPincodeLikeHeader ==
    LET hs == NormalizedHeaders IN
    \A j \in DOMAIN hs :
        /\ \A n \in DOMAIN PINCODE_SYNONYMS : hs[j] # PINCODE_SYNONYMS[n]
        /\ ~(Contains(hs[j], TOK_pin) /\ Contains(hs[j], TOK_code))

\* C8: when the tabular payload has no pincode-like header the load fails:
\* no table, no field map, the attempt log, and a message that lists the
\* normalised headers.
NoPincodeColumnFailsLoad ==
    (SheetParsed /\ NoPincodeLikeHeader) =>
        /\ ~loaded.has_df
        /\ loaded.df = EmptyDf
        /\ loaded.resolved = NoResolved
        /\ loaded.msg.kind = "no_pincode_column"
        /\ loaded.msg.columns = NormalizedHeaders
        /\ attempts # <<>>
        /\ attempts[Len(attempts)] = <<Candidates[Len(attempts)], "200">>

\* C8 witness: the sheet whose first header is "City" and that has no
\* pincode-like header was fetched, and the script stopped on the failure.
NoPincodeColumnWitness ==
    /\ pc = "stopped"
    /\ sheet.headers[1] = H_City
    /\ NoPincodeLikeHeader
    /\ loaded.msg.kind = "no_pincode_column"

\* A header with case folded and every run of characters that are neither
\* letters nor digits read as one separator.
FoldHeader(h) ==
    StrStrip(CollapseWhitespace(
        [n \in DOMAIN h |->
            IF LowerChar(h[n]) \in LowerSet \cup Digits THEN LowerChar(h[n]) ELSE " "]))

\* Position in PINCODE_SYNONYMS of the synonym a header is a variant of, 0
\* when it is a variant of none.
SynonymIndex(h) ==
    IF \E n \in DOMAIN PINCODE_SYNONYMS : FoldHeader(h) = PINCODE_SYNONYMS[n]
    THEN CHOOSE n \in DOMAIN PINCODE_SYNONYMS : FoldHeader(h) = PINCODE_SYNONYMS[n]
    ELSE 0

\* C6: when some raw header is a case/spacing/punctuation variant of a
\* pincode synonym, the pincode column is resolved (never None) to such a
\* header, the one of the earliest synonym.
SynonymVariantResolved ==
    (SheetParsed /\ \E j \in DOMAIN sheet.headers : SynonymIndex(sheet.headers[j]) # 0) =>
        /\ loaded.has_df
        /\ \E j \in DOMAIN sheet.headers :
              /\ loaded.df.columns[j] = TXT_pincode
              /\ SynonymIndex(sheet.headers[j]) # 0
              /\ \A i \in DOMAIN sheet.headers :
                    SynonymIndex(sheet.headers[i]) # 0
                        => SynonymIndex(sheet.headers[j]) <= SynonymIndex(sheet.headers[i])

\* C10: after a successful load each of the four service keys of the field
\* map names a column that is present in the returned table.
ResolvedColumnsPresent ==
    loaded.has_df =>
        \A key \in Keys : ColumnIndex(loaded.df, loaded.resolved[key]) # 0

\* Cell texts that read "yes" once trimmed and lowercased.
YesTexts == {V_Yes_, V_YES, TXT_yes}

\* A row was found for the last press.
RowFound == ui.kind \in {"serviceable", "not_serviceable"}

\* The found row's cell under the column the field map gives for a key reads
\* yes; a column that is missing from the table reads nothing.
ReadsYes(key) ==
    /\ ColumnIndex(loaded.df, loaded.resolved[key]) # 0
    /\ loaded.df.rows[ui.row][ColumnIndex(loaded.df, loaded.resolved[key])] \in YesTexts

\* C3: for a found row, serviceable is reported exactly when the value in
\* the requested service's resolved column, trimmed and lowercased, is "yes".
ServiceableIffYes ==
    RowFound =>
        /\ ui.is_serviceable <=> ReadsYes(query.service_type)
        /\ ui.kind = "serviceable" <=> ReadsYes(query.service_type)

\* C3 witness: a row whose requested cell is "YES" was reported serviceable.
ServiceableIffYesWitness ==
    /\ ui.kind = "serviceable"
    /\ loaded.df.rows[ui.row][ColumnIndex(loaded.df, loaded.resolved[query.service_type])]
         = V_YES

\* C4: is_4w_only is true exactly when the 4W Tyre column reads yes and the
\* other three read something other than yes, through whatever columns the
\* four keys were resolved to.
Only4wTyreExact ==
    RowFound =>
        (ui.is_4w_only <=>
            /\ ReadsYes("4W_Tyre")
            /\ ~ReadsYes("4W_Battery")
            /\ ~ReadsYes("2W_Tyre")
            /\ ~ReadsYes("2W_Battery"))

\* C4 witness: the flag is set on a found row of a table whose 4W Tyre
\* column was resolved by the fuzzy tier, not under its canonical name.
Only4wTyreWitness ==
    /\ RowFound
    /\ ui.is_4w_only
    /\ loaded.resolved["4W_Tyre"] # CANON_4W_Tyre

\* The found row's remark cell, None when the table has no remark column.
RemarkCell ==
    IF ColumnIndex(loaded.df, TOK_remark) = 0 THEN None
    ELSE loaded.df.rows[ui.row][ColumnIndex(loaded.df, TOK_remark)]

\* The remark cell is "-", empty, missing or whitespace-only.
RemarkIsBlank ==
    \/ RemarkCell \in {None, NaN}
    \/ StrStrip(RemarkCell) \in {<<>>, TXT_dash}

\* C5: for a found row the remark is suppressed when the remark cell is
\* "-", empty, missing or whitespace-only and shown trimmed otherwise,
\* whether or not the requested service is serviceable.
RemarkShownUnlessBlank ==
    RowFound =>
        ui.remark = IF RemarkIsBlank THEN None ELSE StrStrip(RemarkCell)

\* C5, the empty cell alone: a serviceable row with an empty remark cell
\* shows no remark.
EmptyRemarkSuppressed ==
    (ui.kind = "serviceable" /\ RemarkCell = NaN) => ui.remark = None

\* No header equals the service's canonical phrase or contains all of its
\* tokens.
Unresolvable(key) ==
    LET hs   == NormalizedHeaders
        toks == StrSplit(SERVICE_CANONICAL[key])
    IN \A j \in DOMAIN hs :
          /\ hs[j] # SERVICE_CANONICAL[key]
          /\ \E t \in DOMAIN toks : ~Contains(hs[j], toks[t])

\* C7: a service field that cannot be resolved does not fail the load; the
\* field map points the key to a synthetic column that reads "no" in every
\* row, and every query for that service reports not serviceable.
UnresolvedServiceIsNo ==
    \A key \in Keys :
        (SheetParsed /\ Unresolvable(key) /\ ~NoPincodeLikeHeader) =>
            /\ loaded.has_df
            /\ loaded.resolved[key] = SERVICE_CANONICAL[key]
            /\ ColumnIndex(loaded.df, SERVICE_CANONICAL[key]) > Len(sheet.headers)
            /\ \A r \in DOMAIN loaded.df.rows :
                  loaded.df.rows[r][ColumnIndex(loaded.df, SERVICE_CANONICAL[key])] = TXT_no
            /\ query.service_type = key =>
                  /\ ~ui.is_serviceable
                  /\ ui.kind # "serviceable"

\* C7 witness: 4W Battery is asked for on a found row of a sheet that has no
\* battery column; the answer is not serviceable.
UnresolvedServiceWitness ==
    /\ Unresolvable("4W_Battery")
    /\ query.service_type = "4W_Battery"
    /\ ui.kind = "not_serviceable"

\* The digits of the typed pincode.
TypedDigits == SelectSeq(query.pincode_input, LAMBDA c : c \in Digits)

\* C9: an input whose digits-only projection is not exactly 6 long gives the
\* invalid-pincode outcome without a lookup; one of exactly 6 digits is
\* looked up and gives a row result or pincode-not-found.
InvalidPincodeNoLookup ==
    ui.kind # "none" =>
        /\ Len(TypedDigits) # 6 => ui.kind = "invalid" /\ ~ui.looked_up
        /\ Len(TypedDigits) = 6 =>
              /\ ui.looked_up
              /\ ui.kind \in {"not_found", "serviceable", "not_serviceable"}
              /\ ui.kind = "not_found" <=>
                    \A r \in DOMAIN loaded.df.rows :
                        loaded.df.rows[r][ColumnIndex(loaded.df, TXT_pincode)] # TypedDigits
              /\ ui.kind # "not_found" =>
                    loaded.df.rows[ui.row][ColumnIndex(loaded.df, TXT_pincode)] = TypedDigits

\* C9 witness: six characters of which five are digits were typed and
\* refused without a lookup.
InvalidPincodeWitness ==
    /\ query.pincode_input = P_4000a1
    /\ ui.kind = "invalid"
    /\ ~ui.looked_up

====
